---- MODULE Spec2Model ----
\* Model of boskos/gcp/config.go: resourceConfigs.construct, its project pool
\* (popProject), zone ring (stringRing), errgroup fan-out of creator calls and
\* the result aggregation over the "communication" channel; Construct, which
\* installs the kubeconfig of the inventory construct returns.
EXTENDS Bags, FiniteSets, Integers, Sequences, TLC

\* ---------------------------------------------------------------- bounds
MaxSpecs == 2      \* project specs in one request (over all kinds)
MaxInst == 1       \* cluster specs per project spec, and VM specs per project spec
MaxTasks == 2      \* cluster + VM specs in one request
MaxPool == 2       \* projects the pool holds for one kind

\* ---------------------------------------------------------------- constants
maxChannels == 100
Nil == "nil"
\* a Go pointer: nil, or the address of x
Null == <<>>
Ref(x) == <<x>>
\* no project (a nil *common.Resource), no error (a nil error)
NoProject == [kind |-> "", n |-> 0]
NoErr == [cause |-> Nil, p |-> NoProject, kind |-> "", zone |-> ""]
\* construct has not returned
NoRet == [userData |-> Null, info |-> Null, err |-> NoErr]
\* Construct has not returned
NoCRet == [userData |-> Null, err |-> NoErr, returned |-> FALSE]
NoZone == ""
Kinds == {"kA", "kB"}
ZonePins == {NoZone, "zp"}
ZoneNames == {"us-a", "us-b", "us-c"}
ZoneLists == {<<>>, <<"us-a">>, <<"us-a", "us-b">>}
BigZoneLists == {<<"us-a">>}

VARIABLES
    gcpClient,      \* package variable gcpClient: Nil or a client
    rc,             \* the receiver: kind -> list of projectConfig
    types,          \* the caller's map kind -> list of projects (typesCopy aliases it)
    types0,         \* content of types when construct was called
    pc,             \* position of construct
    kindsLeft,      \* keys of rc the range loop has not visited yet
    rType,          \* loop variable rType
    specIdx,        \* index of pc in rc[rType] (1-based), 0 before the first
    project,        \* loop variable project
    zoneRing,       \* loop variable zoneRing: [index, values]
    i,              \* number of clusters / vms of pc dispatched so far
    parentErr,      \* Err() of the context made by context.WithTimeout
    ctxErr,         \* Err() of derivedCtx
    gerr,           \* errgroup's err (set under errOnce)
    firstFailure,   \* error of the first task function that returned non-nil
    tasks,          \* bag of goroutines started by errGroup.Go
    communication,  \* content of the channel
    closed,         \* the channel has been closed
    info,           \* ResourceInfo being folded
    processed,      \* specs that obtained a project, in order
    ret,            \* what construct returned, NoRet before
    drawn,          \* the values next() has returned on zoneRing, in order
    cret,           \* what Construct returned, NoCRet before
    kubeconfig,     \* Null, or the file made by getTempFile: the SetKubeConfig
                    \* calls made on it, in order
    used,           \* the values of gcpClient the run has read
    run             \* number of the run (1: the first call of Construct)

\* the fast-forward tool (package main with helper) and the GitHub repository
\* it works on
VARIABLES
    ffpc,           \* position of the tool
    ffCommit,       \* fastForwardBase: the commit getLastCommitFromHead returned
    ffIdx,          \* verifyPullRequestStatus: index of pr in the listed prs
    ffState,        \* updatePullRequest: state, the result of util.GetCIState
    ffErr,          \* the error the helper's method returned
    ghHead,         \* commit of the branch h.Head
    ghBase,         \* commit of the branch h.Base
    ghBranches,     \* the fast-forward branches of the repository
    ghTags,         \* the stable tags of the repository
    ghPRs,          \* the pull requests of the repository, by number
    ghCalls         \* the calls of the GitHub API that changed the repository

\* ValidateJobConfig
VARIABLES
    jobConfig,      \* the argument jobConfig
    jobErr          \* the errors appended to err, in order; Null before the call

provisionVars == <<gcpClient, rc, types, types0, pc, kindsLeft, rType, specIdx, project,
                   zoneRing, i, parentErr, ctxErr, gerr, firstFailure, tasks,
                   communication, closed, info, processed, ret, drawn, cret, kubeconfig,
                   used, run>>
ffVars == <<ffpc, ffCommit, ffIdx, ffState, ffErr, ghHead, ghBase, ghBranches, ghTags, ghPRs, ghCalls>>
jobVars == <<jobConfig, jobErr>>
toolVars == <<ffVars, jobVars>>
vars == <<provisionVars, toolVars>>

\* ---------------------------------------------------------------- helpers
RECURSIVE SeqsUpTo(_, _)
SeqsUpTo(S, n) ==
    IF n = 0 THEN {<<>>}
    ELSE LET shorter == SeqsUpTo(S, n - 1)
         IN shorter \cup {Append(s, x) : s \in {t \in shorter : Len(t) = n - 1}, x \in S}

\* projectConfig: Clusters and Vms, each cluster / vm reduced to its Zone field
\* (NoZone: no zone given), with zones taken from pins
ProjectConfigs(pins) == [Clusters : SeqsUpTo(pins, MaxInst), Vms : SeqsUpTo(pins, MaxInst)]

InstCount(pcfg) == Len(pcfg.Clusters) + Len(pcfg.Vms)

RECURSIVE ListInst(_)
ListInst(pcs) == IF pcs = <<>> THEN 0 ELSE InstCount(Head(pcs)) + ListInst(Tail(pcs))

\* the lists of at most s project specs with at most n clusters and VMs in all
RECURSIVE ListsWithin(_, _, _)
ListsWithin(pins, s, n) ==
    IF s = 0 THEN {<<>>}
    ELSE {<<>>} \cup
         UNION {{<<c>> \o l : l \in ListsWithin(pins, s - 1, n - InstCount(c))} :
                    c \in {d \in ProjectConfigs(pins) : InstCount(d) <= n}}

Pinned(pcs) ==
    \E n \in 1..Len(pcs) :
        \/ \E m \in 1..Len(pcs[n].Clusters) : pcs[n].Clusters[m] # NoZone
        \/ \E m \in 1..Len(pcs[n].Vms) : pcs[n].Vms[m] # NoZone

\* resourceConfigs values the runs are started with: requests over both kinds
\* without a pinned zone (kinds are interchangeable labels: kA is the one with
\* no fewer specs), and requests of one kind with pinned zones
UnpinnedRequests ==
    UNION {{[k \in Kinds |-> IF k = "kA" THEN la ELSE lb] :
                lb \in {l \in ListsWithin({NoZone}, MaxSpecs - Len(la), MaxTasks - ListInst(la)) :
                            Len(l) <= Len(la)}} :
           la \in ListsWithin({NoZone}, MaxSpecs, MaxTasks)}
PinnedRequests ==
    {[k \in Kinds |-> IF k = "kA" THEN la ELSE <<>>] :
        la \in {l \in ListsWithin(ZonePins, 1, MaxTasks) : Pinned(l)}}
Requests == UnpinnedRequests \cup PinnedRequests

\* common.Resource reduced to its Name, here the kind and a number
PoolOf(k, n) == [m \in 1..n |-> [kind |-> k, n |-> m]]
\* the pools a request r is run against: a kind r does not use has no
\* project, a kind it uses has at most one project more than r asks for
Pools(r) ==
    {[k \in Kinds |-> PoolOf(k, sz[k])] :
        sz \in {f \in [Kinds -> 0..MaxPool] :
                   \A k \in Kinds : f[k] <= (IF Len(r[k]) = 0 THEN 0 ELSE Len(r[k]) + 1)}}

\* (nil, &info, err): an error return that hands out the inventory built so far
ErrReturn_keepInfo(e) == [userData |-> Null, info |-> Ref(info), err |-> e]

\* (nil, nil, err)
ErrReturn(e) == [userData |-> Null, info |-> Null, err |-> e]

EmptyRing == [index |-> 0, values |-> <<>>]

\* a ring whose cursor starts where the projects before it have left off
newStringRing_shared(zones) ==
    [index |-> IF zones = <<>> THEN 0 ELSE Len(processed) % Len(zones), values |-> zones]

\* newStringRing
newStringRing(zones) == [index |-> 0, values |-> zones]

\* a next() that moves the cursor before it reads the value
RingValue_moved(r) == r.values[((r.index + 1) % Len(r.values)) + 1]

\* stringRing.next: the value returned (line 145)
RingValue(r) == r.values[r.index + 1]

\* a next() that moves the cursor without wrapping
RingAfter_noWrap(r) == [r EXCEPT !.index = r.index + 1]

\* stringRing.next: the ring after the call (line 146)
RingAfter(r) == [r EXCEPT !.index = (r.index + 1) % Len(r.values)]

CtxDone == ctxErr \in {"deadline", "canceled"}

Cancelled(e) == IF e = "live" THEN "canceled" ELSE e

Unsettled(t) == t.ph \in {"dispatched", "creating", "sending"}
AllSettled == \A t \in BagToSet(tasks) : ~Unsettled(t)

Put(t, u) == (tasks (-) SetToBag({t})) (+) SetToBag({u})
Move(t, ph, api) == Put(t, [t EXCEPT !.ph = ph, !.api = api])

\* the error a task function returns: cause is "api" (the provider's error),
\* "canceled" or "deadline" (the context's error)
TaskErr(t, cause) == [cause |-> cause, p |-> t.p, kind |-> t.kind, zone |-> t.zone]

\* the two nested range loops: kinds not visited yet that have a spec, and
\* whether the current kind has a further spec
Pending == {k \in kindsLeft : Len(rc[k]) > 0}
MoreInKind == rType # Nil /\ specIdx < Len(rc[rType])
AfterSpec(k, idx, left) ==
    IF idx < Len(rc[k]) \/ {q \in left : Len(rc[q]) > 0} # {} THEN "loop" ELSE "wait"

\* a panic ends the process: nothing runs after it
Alive == pc # "panic"

RunErr(cause) == [NoErr EXCEPT !.cause = cause]
PoolErr == RunErr("running out of project while creating resources")
ClientErr == RunErr("client not set")
ListErr == RunErr("listZones failed")
SetErr == RunErr("unable to set user data")

\* ---------------------------------------------------------------- initial states
\* everything but the ring
\* the fast-forward tool is not run
NoToolRun ==
    /\ ffpc = "off"
    /\ ffCommit = Null
    /\ ffIdx = 0
    /\ ffState = ""
    /\ ffErr = NoErr
    /\ ghHead = Null
    /\ ghBase = Null
    /\ ghBranches = {}
    /\ ghTags = {}
    /\ ghPRs = <<>>
    /\ ghCalls = <<>>

\* ValidateJobConfig is not called
NoJobConfig ==
    /\ jobConfig = Null
    /\ jobErr = Null

InitCall(r, pool, client) ==
    /\ gcpClient = client
    /\ rc = r
    /\ types = pool
    /\ types0 = pool
    /\ pc = "start"
    /\ kindsLeft = Kinds
    /\ rType = Nil
    /\ specIdx = 0
    /\ project = NoProject
    /\ i = 0
    /\ parentErr = "unset"
    /\ ctxErr = "unset"
    /\ gerr = NoErr
    /\ firstFailure = NoErr
    /\ tasks = EmptyBag
    /\ communication = <<>>
    /\ closed = FALSE
    /\ info = <<>>
    /\ processed = <<>>
    /\ ret = NoRet
    /\ cret = NoCRet
    /\ kubeconfig = Null
    /\ used = {}
    /\ run = 1

InitRun(r, pool, client) ==
    /\ InitCall(r, pool, client)
    /\ zoneRing = EmptyRing
    /\ drawn = <<>>
    /\ NoToolRun
    /\ NoJobConfig

Init == \E r \in Requests : \E pool \in Pools(r), client \in {Nil, "client"} : InitRun(r, pool, client)

\* ---------------------------------------------------------------- construct
\* a return of construct without the deferred cancel()
Return_noCancel(r) ==
    /\ ret' = r
    /\ pc' = "returned"
    /\ UNCHANGED <<parentErr, ctxErr>>

\* a return of construct; the deferred cancel() runs
Return(r) ==
    /\ ret' = r
    /\ pc' = "returned"
    /\ parentErr' = Cancelled(parentErr)
    /\ ctxErr' = Cancelled(ctxErr)

\* a construct without the client check
ClientMissing_never == FALSE

\* line 186: if gcpClient == nil
ClientMissing == gcpClient = Nil

\* lines 186-208: the client check, the channel, the contexts, the group
Start ==
    /\ pc = "start"
    /\ IF ClientMissing
       THEN /\ Return(ErrReturn(ClientErr))
       ELSE /\ pc' = IF Pending # {} THEN "loop" ELSE "wait"
            /\ parentErr' = "live"
            /\ ctxErr' = "live"
            /\ ret' = ret
    /\ used' = used \cup {gcpClient}
    /\ UNCHANGED <<toolVars, run, drawn, cret, kubeconfig, gcpClient, rc, types, types0, kindsLeft,
                   rType, specIdx, project, zoneRing, i, gerr, firstFailure, tasks,
                   communication, closed, info, processed>>

\* a popProject that hands out the kind's first project again when none is left
PopResult_reuse(pool, k) ==
    IF Len(pool[k]) > 0 THEN pool[k][Len(pool[k])]
    ELSE IF Len(types0[k]) > 0 THEN types0[k][1] ELSE NoProject

\* a popProject that takes the first project of the kind instead of the last
PopResult_first(pool, k) == IF Len(pool[k]) = 0 THEN NoProject ELSE pool[k][1]

\* popProject: the project popped (NoProject when none is left) and the pool after
PopResult(pool, k) == IF Len(pool[k]) = 0 THEN NoProject ELSE pool[k][Len(pool[k])]

\* a popProject that leaves the project in the pool
PopPool_keep(pool, k) == pool

\* popProject: the pool after the pop (line 202)
PopPool(pool, k) ==
    IF Len(pool[k]) = 0 THEN pool
    ELSE [pool EXCEPT ![k] = SubSeq(pool[k], 1, Len(pool[k]) - 1)]

\* project and zoneRing are variables of the loop body: they exist while
\* construct is inside the body
InSpec(at) == at \in {"clusters", "vms"}

\* what gcpClient.gce.listZones may return: (zones, nil) or (nil, err)
ListAnswers(lists) ==
    {[zones |-> z, err |-> NoErr] : z \in lists} \cup {[zones |-> <<>>, err |-> ListErr]}

\* a loop that returns an error of its own when listZones fails
ListFailure_replaced(e) == RunErr("unable to list zones")

\* lines 221-223: if err != nil { return nil, nil, err }
ListFailure(e) == e

\* a loop that does not ask for the zones of the project it popped
Listed_never(e) == e

\* a loop that asks for the zones only when the spec has a cluster or a VM
Listed_ifNeeded(e) ==
    [e EXCEPT !.listed = IF InstCount(rc[e.kind][e.idx]) = 0 THEN @ ELSE @ + 1]

\* line 220: one call of gcpClient.gce.listZones for the popped project
Listed(e) == [e EXCEPT !.listed = @ + 1]

\* lines 211-224 for the spec idx of kind k: pop a project, list its zones
\* (zs: what listZones may answer), build the ring
EnterSpec(k, idx, left, zs) ==
    LET popped == PopResult(types, k)
        cfg == rc[k][idx]
        at == IF Len(cfg.Clusters) > 0 THEN "clusters"
              ELSE IF Len(cfg.Vms) > 0 THEN "vms"
              ELSE AfterSpec(k, idx, left)
    IN /\ rType' = k
       /\ specIdx' = idx
       /\ kindsLeft' = left
       /\ types' = PopPool(types, k)
       /\ i' = 0
       /\ IF popped = NoProject
          THEN /\ Return(ErrReturn(PoolErr))
               /\ UNCHANGED <<project, zoneRing, processed, used>>
          ELSE /\ processed' = Append(processed, Listed([kind |-> k, idx |-> idx, p |-> popped, listed |-> 0]))
               /\ used' = used \cup {gcpClient}
               /\ \E a \in zs :
                     IF a.err # NoErr
                     THEN /\ Return(ErrReturn(ListFailure(a.err)))
                          /\ UNCHANGED <<project, zoneRing>>
                     ELSE /\ pc' = at
                          /\ project' = IF InSpec(at) THEN popped ELSE NoProject
                          /\ zoneRing' = IF InSpec(at) THEN newStringRing(a.zones) ELSE EmptyRing
                          /\ UNCHANGED <<ret, parentErr, ctxErr>>
       /\ UNCHANGED <<toolVars, run, drawn, cret, kubeconfig, gcpClient, rc, types0, gerr, firstFailure,
                      tasks, communication, closed, info>>

NextSpecFrom(zs) ==
    /\ pc = "loop"
    /\ IF MoreInKind
       THEN EnterSpec(rType, specIdx + 1, kindsLeft, zs)
       ELSE \E k \in Pending : EnterSpec(k, 1, kindsLeft \ {k}, zs)

NextSpec == NextSpecFrom(ListAnswers(ZoneLists))

\* a goroutine started before its spec has a zone
NewTask_unassigned(kind, zone) ==
    [p |-> project, kind |-> kind, zone |-> NoZone, ph |-> "dispatched", api |-> FALSE,
     calls |-> 0]

\* a goroutine given to errGroup.Go: its arguments, where it is (ph), whether
\* the cloud API was called for it (api), how often it called its creator
NewTask(kind, zone) ==
    [p |-> project, kind |-> kind, zone |-> zone, ph |-> "dispatched", api |-> FALSE,
     calls |-> 0]

\* a loop that draws a zone for every spec, and overwrites the pinned ones
DrawsZone_always(z) == TRUE

\* lines 228, 243: if cl.Zone == "" / if vm.Zone == ""
DrawsZone(z) == z = NoZone

\* a loop that writes the drawn zone into the request's own spec
ZoneWrite_inPlace(r, k, idx, kind, j, z) ==
    [r EXCEPT ![k][idx] = IF kind = "cluster" THEN [@ EXCEPT !.Clusters[j] = z]
                          ELSE [@ EXCEPT !.Vms[j] = z]]

\* lines 227-230, 242-245: cl := pc.Clusters[i] (vm := pc.Vms[j]) copies the
\* element, and the drawn zone is assigned to the copy: the request r after
\* the zone z was drawn for spec j of this kind
ZoneWrite(r, k, idx, kind, j, z) == r

\* one iteration of a dispatch loop (lines 226-240, 241-255): list is the
\* Clusters or Vms of the current spec, after is the position after the loop
Dispatch(kind, list, after) ==
    LET z == list[i + 1]
        at == IF i + 1 < Len(list) THEN pc ELSE after
    IN IF DrawsZone(z) /\ Len(zoneRing.values) = 0
       THEN \* r.values[r.index] on an empty slice
            /\ pc' = "panic"
            /\ UNCHANGED <<zoneRing, drawn, i, tasks, project, rc>>
       ELSE /\ rc' = IF DrawsZone(z)
                     THEN ZoneWrite(rc, rType, specIdx, kind, i + 1, RingValue(zoneRing))
                     ELSE rc
            /\ tasks' = tasks (+) SetToBag({NewTask(kind, IF DrawsZone(z) THEN RingValue(zoneRing) ELSE z)})
            /\ i' = IF i + 1 < Len(list) THEN i + 1 ELSE 0
            /\ pc' = at
            /\ zoneRing' = IF ~InSpec(at) THEN EmptyRing
                            ELSE IF DrawsZone(z) THEN RingAfter(zoneRing) ELSE zoneRing
            /\ drawn' = IF ~InSpec(at) THEN <<>>
                         ELSE IF DrawsZone(z) THEN Append(drawn, RingValue(zoneRing)) ELSE drawn
            /\ project' = IF InSpec(at) THEN project ELSE NoProject

DispatchCluster ==
    /\ pc = "clusters"
    /\ LET cfg == rc[rType][specIdx]
       IN Dispatch("cluster", cfg.Clusters,
                   IF Len(cfg.Vms) > 0 THEN "vms" ELSE AfterSpec(rType, specIdx, kindsLeft))
    /\ UNCHANGED <<toolVars, run, used, cret, kubeconfig, gcpClient, types, types0, kindsLeft, rType,
                   specIdx, parentErr, ctxErr, gerr, firstFailure, communication,
                   closed, info, processed, ret>>

DispatchVm ==
    /\ pc = "vms"
    /\ Dispatch("vm", rc[rType][specIdx].Vms, AfterSpec(rType, specIdx, kindsLeft))
    /\ UNCHANGED <<toolVars, run, used, cret, kubeconfig, gcpClient, types, types0, kindsLeft, rType,
                   specIdx, parentErr, ctxErr, gerr, firstFailure, communication,
                   closed, info, processed, ret>>

\* ---------------------------------------------------------------- the tasks
\* a task that hands create the context of WithTimeout instead of derivedCtx
TaskCtxErr_parent == parentErr

\* a task that hands create the caller's ctx, which has no deadline
TaskCtxErr_caller == "live"

\* the context handed to create (lines 232, 247): derivedCtx
TaskCtxErr == ctxErr

\* a creator called with a context that is already done returns the
\* context's error without calling the cloud API
CreatorCallsAPI(e) == e \notin {"deadline", "canceled"}

\* what a creator that is inside the cloud operation may return: an
\* InstanceInfo ("ok") or the provider's error ("api") while its context is
\* live, the context's error once the context is done
CreatorResults(e) == IF e \in {"deadline", "canceled"} THEN {e} ELSE {"ok", "api"}

\* a group that keeps the last error instead of the first
GroupErr_last(e) == e

\* errgroup: errOnce.Do(func() { g.err = err; cancel() })
GroupErr(e) == IF gerr = NoErr THEN e ELSE gerr

\* a task function that calls its creator again when the creator failed
OnCreateError_retry(t) == [t EXCEPT !.ph = "dispatched"]

\* lines 233-235, 248-250: if err != nil { return err }
OnCreateError(t) == [t EXCEPT !.ph = "failed"]

\* the function given to errGroup.Go returns err: the group records it if it
\* is the first and cancels derivedCtx (a task fails when its function returns)
TaskFail(t, u, cause) ==
    /\ tasks' = Put(t, OnCreateError(u))
    /\ gerr' = GroupErr(TaskErr(t, cause))
    /\ firstFailure' = IF firstFailure = NoErr THEN TaskErr(t, cause) ELSE firstFailure
    /\ ctxErr' = Cancelled(ctxErr)
    /\ UNCHANGED <<pc, communication>>

\* the goroutine starts and calls create (lines 232, 247)
TaskCallCreate ==
    /\ Alive
    /\ \E t \in BagToSet(tasks) :
          /\ t.ph = "dispatched"
          /\ LET u == [t EXCEPT !.calls = @ + 1]
             IN IF CreatorCallsAPI(TaskCtxErr)
                THEN /\ tasks' = Put(t, [u EXCEPT !.ph = "creating", !.api = TRUE])
                     /\ UNCHANGED <<gerr, firstFailure, ctxErr, pc, communication>>
                ELSE TaskFail(t, u, TaskCtxErr)
    /\ used' = used \cup {gcpClient}
    /\ UNCHANGED <<toolVars, run, drawn, cret, kubeconfig, gcpClient, rc, types, types0, kindsLeft,
                   rType, specIdx, project, zoneRing, i, parentErr, closed, info,
                   processed, ret>>

\* a task that sends every result as a VM's
Com_asVM(t) == [p |-> t.p, ci |-> Null, vmi |-> Ref([Zone |-> t.zone])]

\* the value sent at lines 237, 252
Com(t) ==
    [p |-> t.p,
     ci |-> IF t.kind = "cluster" THEN Ref([Zone |-> t.zone]) ELSE Null,
     vmi |-> IF t.kind = "vm" THEN Ref([Zone |-> t.zone]) ELSE Null]

\* the value sent at lines 237, 252 when create returned (nil, nil): the
\* pointer is stored as it came
NilCom(t) == [p |-> t.p, ci |-> Null, vmi |-> Null]

\* lines 232-238, 247-253 when create returned a nil error, with an
\* InstanceInfo or (nilInfo) without: the task sends it and returns nil. A
\* send on a full channel blocks (only the aggregator receives, and it
\* starts after Wait), a send on a closed channel panics.
CreateReturns(nilInfo) ==
    /\ Alive
    /\ \E t \in BagToSet(tasks) :
          /\ t.ph = "creating"
          /\ "ok" \in CreatorResults(TaskCtxErr)
          /\ IF closed
             THEN /\ pc' = "panic"
                  /\ UNCHANGED <<tasks, communication>>
             ELSE IF Len(communication) < maxChannels
             THEN /\ communication' = Append(communication, IF nilInfo THEN NilCom(t) ELSE Com(t))
                  /\ tasks' = Move(t, "done", t.api)
                  /\ pc' = pc
             ELSE /\ tasks' = Move(t, "sending", t.api)
                  /\ UNCHANGED <<pc, communication>>
    /\ UNCHANGED <<toolVars, run, used, drawn, cret, kubeconfig, gcpClient, rc, types, types0, kindsLeft, rType, specIdx, project,
                   zoneRing, i, parentErr, ctxErr, gerr, firstFailure, closed, info,
                   processed, ret>>

\* create returns an InstanceInfo and a nil error
CreateReturnsOK == CreateReturns(FALSE)

\* create returns a nil InstanceInfo and a nil error, which the interfaces
\* of lines 116-123 allow
CreateReturnsNil == CreateReturns(TRUE)

\* create returns an error: the provider's, or the context's once it is done
CreateFails ==
    /\ Alive
    /\ \E t \in BagToSet(tasks) :
          /\ t.ph = "creating"
          /\ \E cause \in CreatorResults(TaskCtxErr) \ {"ok"} : TaskFail(t, t, cause)
    /\ UNCHANGED <<toolVars, run, used, drawn, cret, kubeconfig, gcpClient, rc, types, types0, kindsLeft, rType, specIdx, project,
                   zoneRing, i, parentErr, closed, info, processed, ret>>

\* the timer of context.WithTimeout(ctx, gcpClient.operationTimeout) fires
DeadlineFires ==
    /\ Alive
    /\ parentErr = "live"
    /\ parentErr' = "deadline"
    /\ ctxErr' = IF ctxErr = "live" THEN "deadline" ELSE ctxErr
    /\ UNCHANGED <<toolVars, run, used, drawn, cret, kubeconfig, gcpClient, rc, types, types0, pc, kindsLeft, rType, specIdx, project,
                   zoneRing, i, gerr, firstFailure, tasks, communication, closed,
                   info, processed, ret>>

\* ---------------------------------------------------------------- wait and fold
\* a Wait that returns as soon as an error is recorded
WaitReady_onError == AllSettled \/ gerr # NoErr

\* no Wait at all
WaitReady_noWait == TRUE

\* errgroup.Wait: g.wg.Wait() returns when every function given to Go has returned
WaitReady == AllSettled

\* lines 259-262
WaitReturns ==
    /\ pc = "wait"
    /\ WaitReady
    /\ IF gerr # NoErr
       THEN Return(ErrReturn(gerr))
       ELSE /\ pc' = "close"
            /\ ctxErr' = Cancelled(ctxErr)
            /\ UNCHANGED <<ret, parentErr>>
    /\ UNCHANGED <<toolVars, run, used, drawn, cret, kubeconfig, gcpClient, rc, types, types0, kindsLeft, rType, specIdx, project,
                   zoneRing, i, gerr, firstFailure, tasks, communication, closed,
                   info, processed>>

\* lines 263-265
CloseChan ==
    /\ pc = "close"
    /\ closed' = TRUE
    /\ info' = <<>>
    /\ pc' = "drain"
    /\ UNCHANGED <<toolVars, run, used, drawn, cret, kubeconfig, gcpClient, rc, types, types0, kindsLeft, rType, specIdx, project,
                   zoneRing, i, parentErr, ctxErr, gerr, firstFailure, tasks,
                   communication, processed, ret>>

EmptyProjectInfo == [Clusters |-> <<>>, VMs |-> <<>>]

\* a fold that starts from an empty ProjectInfo every time
Fold_fresh(inf, c) ==
    LET npi == IF c.ci # Null
               THEN [EmptyProjectInfo EXCEPT !.Clusters = Append(@, c.ci[1])]
               ELSE [EmptyProjectInfo EXCEPT !.VMs = Append(@, c.vmi[1])]
    IN [q \in DOMAIN inf \cup {c.p} |-> IF q = c.p THEN npi ELSE inf[q]]

\* lines 268-277: info after folding c
Fold(inf, c) ==
    LET pi == IF c.p \in DOMAIN inf THEN inf[c.p] ELSE EmptyProjectInfo
        npi == IF c.ci # Null
               THEN [pi EXCEPT !.Clusters = Append(@, c.ci[1])]
               ELSE [pi EXCEPT !.VMs = Append(@, c.vmi[1])]
    IN [q \in DOMAIN inf \cup {c.p} |-> IF q = c.p THEN npi ELSE inf[q]]

\* one iteration of the range over the channel (lines 267-278)
Receive ==
    /\ pc = "drain"
    /\ Len(communication) > 0
    /\ LET c == Head(communication)
       IN IF c.ci = Null /\ c.vmi = Null
          THEN \* *c.vmi on a nil pointer
               /\ pc' = "panic"
               /\ UNCHANGED <<info, communication>>
          ELSE /\ info' = Fold(info, c)
               /\ communication' = Tail(communication)
               /\ pc' = pc
    /\ UNCHANGED <<toolVars, run, used, drawn, cret, kubeconfig, gcpClient, rc, types, types0, kindsLeft, rType, specIdx, project,
                   zoneRing, i, parentErr, ctxErr, gerr, firstFailure, tasks, closed,
                   processed, ret>>

\* (&userData, &info, nil)
OkReturn(inf) == [userData |-> Ref([GCPResourceConfig |-> inf]), info |-> Ref(inf), err |-> NoErr]

\* the range ends on the closed, empty channel; lines 280-286
Finish ==
    /\ pc = "drain"
    /\ closed
    /\ Len(communication) = 0
    /\ \E ok \in BOOLEAN : Return(IF ok THEN OkReturn(info) ELSE ErrReturn(SetErr))
    /\ UNCHANGED <<toolVars, run, used, drawn, cret, kubeconfig, gcpClient, rc, types, types0, kindsLeft, rType, specIdx, project,
                   zoneRing, i, gerr, firstFailure, tasks, communication, closed,
                   info, processed>>

\* ---------------------------------------------------------------- Construct
RECURSIVE Orders(_)
\* the orders in which a range over a map with keys S may visit them
Orders(S) == IF S = {} THEN {<<>>} ELSE UNION {{<<x>> \o o : o \in Orders(S \ {x})} : x \in S}

RECURSIVE KubeCalls(_, _)
\* the SetKubeConfig calls of ResourceInfo.Install (lines 314-321) when none
\* fails: every cluster of every project, the projects in the given order
KubeCalls(inf, order) ==
    IF order = <<>> THEN <<>>
    ELSE LET q == Head(order)
         IN [c \in 1..Len(inf[q].Clusters) |->
                    [p |-> q, Zone |-> inf[q].Clusters[c].Zone, failed |-> FALSE]]
                \o KubeCalls(inf, Tail(order))

TempErr == RunErr("getTempFile failed")
InstallErr == RunErr("SetKubeConfig failed")
ReadErr == RunErr("ReadFile failed")

\* an Install that goes through all the clusters and reports the failure at
\* the end
Install_goesOn(inf, order, fails) ==
    LET all == KubeCalls(inf, order)
    IN IF fails = 0 THEN [calls |-> all, err |-> NoErr]
       ELSE [calls |-> [n \in 1..Len(all) |-> [all[n] EXCEPT !.failed = (n = fails)]],
             err |-> InstallErr]

\* ResourceInfo.Install: the calls made (failed: the call returned an error)
\* and the error returned when the call number fails is the first to fail
\* (0: none fails)
Install(inf, order, fails) ==
    LET all == KubeCalls(inf, order)
    IN IF fails = 0 THEN [calls |-> all, err |-> NoErr]
       ELSE [calls |-> [n \in 1..fails |-> [all[n] EXCEPT !.failed = (n = fails)]],
             err |-> InstallErr]

CRet(u, e) == [userData |-> u, err |-> e, returned |-> TRUE]

\* a Construct that goes on after a failed construct
ConstructStops_never == FALSE

\* line 157: if err != nil
ConstructStops == ret.err # NoErr

\* an error return that hands out the user data construct made
ConstructErr_keep(e) == CRet(ret.userData, e)

\* lines 163, 168, 172, 178: return nil, err
ConstructErr(e) == CRet(Null, e)

\* Construct after rc.construct has returned (lines 156-181)
ConstructReturns ==
    /\ pc = "returned"
    /\ ~cret.returned
    /\ IF ConstructStops
       THEN /\ cret' = CRet(ret.userData, ret.err)
            /\ UNCHANGED <<pc, kubeconfig>>
       ELSE \/ /\ cret' = ConstructErr(TempErr)
               /\ UNCHANGED <<pc, kubeconfig>>
            \/ IF ret.info = Null
               THEN \* info.Install on a nil *ResourceInfo
                    /\ kubeconfig' = Ref(<<>>)
                    /\ pc' = "panic"
                    /\ cret' = cret
               ELSE \E order \in Orders(DOMAIN ret.info[1]) :
                    \E fails \in 0..Len(KubeCalls(ret.info[1], order)) :
                       LET r == Install(ret.info[1], order, fails)
                       IN /\ kubeconfig' = Ref(r.calls)
                          /\ pc' = pc
                          /\ IF r.err # NoErr
                             THEN cret' = ConstructErr(r.err)
                             ELSE \/ cret' = ConstructErr(ReadErr)
                                  \/ cret' = ConstructErr(SetErr)
                                  \/ cret' = CRet(Ref([GCPResourceConfig |-> ret.info[1],
                                                       kubeconfig |-> r.calls]), NoErr)
    /\ UNCHANGED <<toolVars, run, used, drawn, gcpClient, rc, types, types0, kindsLeft, rType, specIdx, project,
                   zoneRing, i, parentErr, ctxErr, gerr, firstFailure, tasks,
                   communication, closed, info, processed, ret>>

\* ---------------------------------------------------------------- the ring alone
MaxZones == 3      \* zones a project has
MaxDraws == 4      \* calls of next() on one ring

RingNext ==
    /\ Len(drawn) < MaxDraws
    /\ drawn' = Append(drawn, RingValue(zoneRing))
    /\ zoneRing' = RingAfter(zoneRing)
    /\ UNCHANGED <<toolVars, run, used, cret, kubeconfig, gcpClient, rc, types, types0, pc, kindsLeft, rType,
                   specIdx, project, i, parentErr, ctxErr, gerr, firstFailure, tasks,
                   communication, closed, info, processed, ret>>

NoRequest == [k \in Kinds |-> <<>>]
InitRing ==
    /\ InitCall(NoRequest, NoRequest, "client")
    /\ \E zones \in SeqsUpTo(ZoneNames, MaxZones) \ {<<>>} : zoneRing = newStringRing(zones)
    /\ drawn = <<>>
    /\ NoToolRun
    /\ NoJobConfig

SpecRing == InitRing /\ [][RingNext]_vars

\* ---------------------------------------------------------------- specifications
Next ==
    \/ Start
    \/ NextSpec
    \/ DispatchCluster
    \/ DispatchVm
    \/ TaskCallCreate
    \/ CreateReturnsOK
    \/ CreateFails
    \/ DeadlineFires
    \/ WaitReturns
    \/ CloseChan
    \/ Receive
    \/ Finish
    \/ ConstructReturns

Spec == Init /\ [][Next]_vars

\* the clients SetClient is called with
Clients == {"client", "other"}

\* SetClient (lines 64-69), called by another goroutine: it holds
\* gcpClientLock, which construct never takes, so the calls interleave with
\* the run's reads of gcpClient
SetClient ==
    /\ \E c \in Clients \ {gcpClient} : gcpClient' = c
    /\ UNCHANGED <<toolVars, run, used, drawn, cret, kubeconfig, rc, types, types0, pc, kindsLeft,
                   rType, specIdx, project, zoneRing, i, parentErr, ctxErr, gerr,
                   firstFailure, tasks, communication, closed, info, processed, ret>>

\* the run with SetClient calls at any moment
NextClient == Next \/ SetClient
SpecClient == Init /\ [][NextClient]_vars

\* the run with creators that may also return (nil, nil)
NextNil == Next \/ CreateReturnsNil
SpecNil == Init /\ [][NextNil]_vars

\* Runs with as many tasks as the channel holds, and with one more: one kind,
\* one project, n cluster specs without a zone, creators that all return an
\* InstanceInfo before the deadline.
BigRequest(n) ==
    [k \in Kinds |-> IF k = "kA" THEN <<[Clusters |-> [m \in 1..n |-> NoZone], Vms |-> <<>>]>>
                     ELSE <<>>]
BigPool == [k \in Kinds |-> IF k = "kA" THEN PoolOf(k, 1) ELSE <<>>]

InitBig == \E n \in {maxChannels, maxChannels + 1} : InitRun(BigRequest(n), BigPool, "client")

NextSpecBig == NextSpecFrom(ListAnswers(BigZoneLists))

NextBig ==
    \/ Start
    \/ NextSpecBig
    \/ DispatchCluster
    \/ TaskCallCreate
    \/ CreateReturnsOK
    \/ WaitReturns
    \/ CloseChan
    \/ Receive
    \/ Finish

SpecBig == InitBig /\ [][NextBig]_vars

\* every step that can be taken is eventually taken: goroutines are scheduled,
\* creator calls return
FairSpecBig == SpecBig /\ WF_vars(NextBig)

\* ---------------------------------------------------------------- properties
Returned == pc = "returned"
Failed == Returned /\ ret.err # NoErr
Succeeded == Returned /\ ret.err = NoErr
TaskCauses == {"api", "canceled", "deadline"}
TaskCount == BagCardinality(tasks)
PhaseCount(ph) == BagCardinality([t \in {u \in BagToSet(tasks) : u.ph = ph} |-> tasks[t]])
ApiCount == BagCardinality([t \in {u \in BagToSet(tasks) : u.api} |-> tasks[t]])

RECURSIVE InfoCount(_, _)
InfoCount(inf, S) ==
    IF S = {} THEN 0
    ELSE LET q == CHOOSE x \in S : TRUE
         IN Len(inf[q].Clusters) + Len(inf[q].VMs) + InfoCount(inf, S \ {q})
Entries(inf) == InfoCount(inf, DOMAIN inf)

\* C1 as stated: whenever construct has returned, by whatever path, no task
\* of the run is still unsettled.
C1_SettledOnEveryReturn == Returned => AllSettled

\* C1 amended: when construct has returned otherwise than from inside the
\* dispatch loop (pool exhaustion, zone-listing failure), that is after
\* errGroup.Wait or before anything was started, every task has settled.
C1_SettledAfterWait ==
    (Returned /\ ret.err \notin {PoolErr, ListErr}) => AllSettled

\* a run of two or more tasks has returned a task's error
C1_Witness == Failed /\ ret.err.cause = "api" /\ TaskCount >= 2 /\ AllSettled

\* C2: no task that got its InstanceInfo is ever blocked in the send at
\* lines 237 / 252.
C2_NoBlockedSend == \A t \in BagToSet(tasks) : t.ph # "sending"

\* C3: every run eventually returns (creator calls return, goroutines run).
C3_RunReturns == <>Returned

\* the pool holds fewer projects of some kind than the request has specs of it
Short == \E k \in Kinds : Len(rc[k]) > Len(types0[k])

RECURSIVE ProcessedInst(_)
ProcessedInst(ps) ==
    IF ps = <<>> THEN 0
    ELSE InstCount(rc[Head(ps).kind][Head(ps).idx]) + ProcessedInst(Tail(ps))

\* C4 as stated: a run against a pool that is too small for some kind returns
\* the pool-exhaustion error.
C4_ShortPoolGivesPoolErr == (Returned /\ Short) => ret.err = PoolErr

\* C4 amended: a run against a pool that is too small never returns success
\* or a task's error: it returns the pool-exhaustion error unless it ended
\* before with the missing-client or a zone-listing error. With the
\* pool-exhaustion error it returns no inventory, and tasks exist only for
\* the specs that had obtained a project before: none for the spec that
\* found the pool empty, none for a later one.
C4_Exhaustion ==
    /\ (Returned /\ Short) => ret.err \in {PoolErr, ClientErr, ListErr}
    /\ (Returned /\ ret.err = PoolErr) =>
          /\ ret.info = Null
          /\ ret.userData = Null
          /\ Len(types[rType]) = 0
          /\ \A n \in 1..Len(processed) :
                ~(processed[n].kind = rType /\ processed[n].idx = specIdx)
          /\ \A t \in BagToSet(tasks) : \E n \in 1..Len(processed) : processed[n].p = t.p
          /\ TaskCount = ProcessedInst(processed)

\* pool exhaustion met after an earlier spec had its tasks dispatched
C4_Witness == Returned /\ ret.err = PoolErr /\ TaskCount >= 1 /\ ApiCount >= 1

\* C5: once a task has failed (the group has recorded its error and has
\* cancelled derivedCtx), no further task invokes the cloud API.
C5_NoApiCallAfterFailure == [][gerr # NoErr => ApiCount' = ApiCount]_vars

\* a task that had not called create when a sibling failed with the
\* provider's error has returned without invoking the API
C5_Witness ==
    /\ firstFailure.cause = "api"
    /\ \E t \in BagToSet(tasks) : t.ph = "failed" /\ ~t.api

C7_NoPartialInventory == Failed => (ret.info = Null /\ ret.userData = Null)

\* an error return after some task had emitted its result
C7_Witness == Failed /\ Len(communication) > 0 /\ ret.info = Null

\* C8: the inventory of a successful run has an entry exactly for the
\* projects with a successful creation, and as many clusters and VMs in all
\* as tasks were dispatched.
C8_InventoryComplete ==
    Succeeded =>
        LET inf == ret.info[1]
        IN /\ DOMAIN inf = {t.p : t \in {u \in BagToSet(tasks) : u.ph = "done"}}
           /\ Entries(inf) = TaskCount

\* a successful run with two creations in one project
C8_Witness ==
    /\ Succeeded
    /\ \E q \in DOMAIN ret.info[1] :
          Len(ret.info[1][q].Clusters) + Len(ret.info[1][q].VMs) >= 2

\* C9: after a failed run the caller's pool holds what it held before.
C9_PoolUntouched == Failed => types = types0

\* C10: the channel is closed and read only when every task has settled; no
\* send meets a closed channel; what the aggregator has folded and what it
\* has still to read are together the results the tasks emitted.
C10_DrainAfterSettle ==
    (closed \/ pc \in {"close", "drain"}) =>
        /\ AllSettled
        /\ Entries(info) + Len(communication) = PhaseCount("done")

\* the aggregator in the middle of two results
C10_Witness == pc = "drain" /\ Entries(info) = 1 /\ Len(communication) = 1

\* C11: when listZones gives a project no zone and a cluster or VM spec of it
\* has no zone, the run ends with an error return: it does not crash drawing
\* a zone from the empty ring.
C11_EmptyZonesGiveError == ~(pc = "panic" /\ project # NoProject /\ Len(zoneRing.values) = 0)

\* C12: on a ring made of the non-empty list z[0..n-1], the k-th call of
\* next() returns z[(k-1) mod n]; the cursor goes back to 0 after the last
\* element and is always within 0..n-1.
C12_RingOrder ==
    LET n == Len(zoneRing.values)
    IN /\ zoneRing.index \in 0..(n - 1)
       /\ zoneRing.index = Len(drawn) % n
       /\ \A k \in 1..Len(drawn) : drawn[k] = zoneRing.values[((k - 1) % n) + 1]
C12_Witness == zoneRing.values = <<"us-a", "us-b", "us-c">> /\ drawn = <<"us-a", "us-b", "us-c", "us-a">>

\* the tasks dispatched for project p with this kind and zone
TasksAt(p, kind, zone) ==
    BagCardinality([t \in {u \in BagToSet(tasks) : u.p = p /\ u.kind = kind /\ u.zone = zone} |-> tasks[t]])

\* the cluster and VM specs of processed[n] that have been dispatched, in the
\* order of the two loops
Dispatched(n) ==
    LET cfg == rc[processed[n].kind][processed[n].idx]
        current == n = Len(processed) /\ InSpec(pc)
        cl == IF current /\ pc = "clusters" THEN SubSeq(cfg.Clusters, 1, i) ELSE cfg.Clusters
        vm == IF ~current THEN cfg.Vms
              ELSE IF pc = "clusters" THEN <<>> ELSE SubSeq(cfg.Vms, 1, i)
    IN [j \in 1..Len(cl) |-> [kind |-> "cluster", z |-> cl[j]]]
           \o [j \in 1..Len(vm) |-> [kind |-> "vm", z |-> vm[j]]]

\* how many of the first j specs of D have no zone
Unpinned(D, j) == Cardinality({m \in 1..j : D[m].z = NoZone})

\* C13: a cluster or VM spec that names a zone is created in exactly that
\* zone and does not advance the ring; the specs without a zone get the zones
\* the ring gives when the pinned specs are left out: the k-th of them gets
\* zone (k-1) mod n of the project's list.
C13_PinnedKeepRing ==
    \A n \in 1..Len(processed) :
        LET D == Dispatched(n)
            p == processed[n].p
            zoneAt(zl, j) == IF D[j].z # NoZone THEN D[j].z
                             ELSE zl[((Unpinned(D, j) - 1) % Len(zl)) + 1]
            Fits(zl) ==
                /\ Unpinned(D, Len(D)) > 0 => Len(zl) > 0
                /\ BagCardinality([t \in {u \in BagToSet(tasks) : u.p = p} |-> tasks[t]]) = Len(D)
                /\ \A j \in 1..Len(D) :
                      TasksAt(p, D[j].kind, zoneAt(zl, j))
                          = Cardinality({m \in 1..Len(D) : /\ D[m].kind = D[j].kind
                                                           /\ zoneAt(zl, m) = zoneAt(zl, j)})
        IN \/ n = Len(processed) /\ (pc = "panic" \/ (Returned /\ ret.err = ListErr))
           \/ IF n = Len(processed) /\ InSpec(pc)
              THEN /\ Fits(zoneRing.values)
                   /\ Len(drawn) = Unpinned(D, Len(D))
                   /\ Len(zoneRing.values) > 0
                         => zoneRing.index = Unpinned(D, Len(D)) % Len(zoneRing.values)
              ELSE \E zl \in ZoneLists : Fits(zl)
C13_Witness ==
    /\ pc = "vms"
    /\ rc[rType][specIdx].Vms[1] = NoZone
    /\ TasksAt(project, "cluster", "zp") = 1
    /\ zoneRing = newStringRing(<<"us-a", "us-b">>)

\* C14: the ring of a project is drawn first by its clusters without a zone,
\* in list order, then by its VMs without a zone, in list order: the spec
\* dispatched by a step gets the zone at ring position (number of unpinned
\* specs dispatched before it) mod n. With zones [us-a, us-b], one such
\* cluster and one such VM, the cluster gets us-a and the VM us-b.
C14_ClustersDrawFirst ==
    [][(InSpec(pc) /\ TaskCount' = TaskCount + 1)
          => LET cfg == rc[rType][specIdx]
                 before == IF pc = "clusters" THEN SubSeq(cfg.Clusters, 1, i)
                           ELSE cfg.Clusters \o SubSeq(cfg.Vms, 1, i)
                 z == IF pc = "clusters" THEN cfg.Clusters[i + 1] ELSE cfg.Vms[i + 1]
                 k == Cardinality({m \in 1..Len(before) : before[m] = NoZone})
                 zl == zoneRing.values
                 kind == IF pc = "clusters" THEN "cluster" ELSE "vm"
             IN z = NoZone
                   => /\ drawn = [m \in 1..k |-> zl[((m - 1) % Len(zl)) + 1]]
                      /\ CopiesIn(NewTask(kind, zl[(k % Len(zl)) + 1]), tasks')
                             = CopiesIn(NewTask(kind, zl[(k % Len(zl)) + 1]), tasks) + 1]_vars
C14_Witness ==
    \E n \in 1..Len(processed) :
        /\ rc[processed[n].kind][processed[n].idx] = [Clusters |-> <<NoZone>>, Vms |-> <<NoZone>>]
        /\ TasksAt(processed[n].p, "cluster", "us-a") = 1
        /\ TasksAt(processed[n].p, "vm", "us-b") = 1

\* C15 as stated: when the deadline has elapsed with no task failed before
\* and a task had called the cloud API and has not delivered a result, a run
\* that returns returns the deadline error.
C15_DeadlineErrorReturned ==
    (Returned /\ ctxErr = "deadline" /\ \E t \in BagToSet(tasks) : t.api /\ t.ph # "done")
        => ret.err.cause = "deadline"

\* C15: the deadline is one timer for the whole run, shared by all tasks and
\* never restarted: once it has elapsed with no task failed before, no task
\* delivers a result any more, the first task that returns fails with the
\* deadline error, and a run that returns from Wait with a task that has not
\* delivered returns the deadline error (a run the dispatch loop ends first
\* returns the pool-exhaustion or the zone-listing error instead).
C15_SharedDeadline ==
    /\ [](/\ ctxErr = "deadline" => parentErr = "deadline"
          /\ (ctxErr = "deadline" /\ gerr # NoErr) => gerr.cause = "deadline"
          /\ (Returned /\ ctxErr = "deadline" /\ ret.err \notin {PoolErr, ListErr}
                 /\ \E t \in BagToSet(tasks) : t.ph # "done")
                => (ret.err.cause = "deadline" /\ AllSettled))
    /\ [][ctxErr = "deadline"
             => /\ ctxErr' = "deadline"
                /\ parentErr' = "deadline"
                /\ PhaseCount("done")' = PhaseCount("done")]_vars
C15_Witness ==
    /\ Returned
    /\ ret.err.cause = "deadline"
    /\ ApiCount = 2
    /\ PhaseCount("failed") = 2

\* C16: every processed spec has popped exactly one project from the pool of
\* its own kind, never from another kind's pool, and no project is handed to
\* two specs of one run.
C16_OneProjectPerSpec ==
    /\ \A n \in 1..Len(processed) :
          /\ processed[n].p # NoProject
          /\ \E m \in 1..Len(types0[processed[n].kind]) :
                types0[processed[n].kind][m] = processed[n].p
          /\ \A m \in 1..Len(processed) : processed[m].p = processed[n].p => m = n
    /\ \A k \in Kinds :
          /\ Len(types0[k]) - Len(types[k])
                = Cardinality({n \in 1..Len(processed) : processed[n].kind = k})
          /\ types[k] = SubSeq(types0[k], 1, Len(types[k]))
C16_Witness ==
    /\ Len(processed) = 2
    /\ processed[1].kind = processed[2].kind
    /\ TasksAt(processed[1].p, "cluster", "us-a") = 1
    /\ TasksAt(processed[2].p, "cluster", "us-a") = 1

\* C17: nothing is retried: a task calls its creator at most once, and a
\* task that has started has called it exactly once. When the dispatch loop
\* has completed, each processed project has one task per cluster spec and
\* one per VM spec of its project spec, every spec of the request has been
\* processed, and when the run returns every task has called its creator.
C17_CreateOncePerSpec ==
    /\ \A t \in BagToSet(tasks) : t.calls = (IF t.ph = "dispatched" THEN 0 ELSE 1)
    /\ (pc \in {"wait", "close", "drain"} \/ (Returned /\ ret.err \notin {ClientErr, PoolErr, ListErr}))
          => /\ \A k \in Kinds : \A m \in 1..Len(rc[k]) :
                   \E n \in 1..Len(processed) : processed[n].kind = k /\ processed[n].idx = m
             /\ \A n \in 1..Len(processed) :
                   LET cfg == rc[processed[n].kind][processed[n].idx]
                       at(kind) == BagCardinality([t \in {u \in BagToSet(tasks) :
                                                       u.p = processed[n].p /\ u.kind = kind}
                                                   |-> tasks[t]])
                   IN at("cluster") = Len(cfg.Clusters) /\ at("vm") = Len(cfg.Vms)
             /\ TaskCount = ProcessedInst(processed)
             /\ Returned => \A t \in BagToSet(tasks) : t.calls = 1
C17_Witness ==
    /\ Returned
    /\ ret.err.cause = "api"
    /\ TaskCount = 2
    /\ \A t \in BagToSet(tasks) : t.ph = "failed" /\ t.calls = 1
    /\ ApiCount = 1

\* C18: with no client configured the run fails at once with the
\* configuration error: no project is popped, no zone listing is asked for,
\* no deadline is started and no task is dispatched.
C18_NoClientNoWork ==
    gcpClient = Nil
        => /\ pc \in {"start", "returned"}
           /\ Returned => ret = ErrReturn(ClientErr)
           /\ types = types0
           /\ processed = <<>>
           /\ tasks = EmptyBag
           /\ parentErr = "unset"
C18_Witness ==
    /\ gcpClient = Nil
    /\ Returned
    /\ ret.err = ClientErr
    /\ rc["kA"] # <<>>
    /\ types["kA"] # <<>>

\* C19: when Install fails after a run that succeeded, Construct returns
\* Install's error and no user data, although every creation task has
\* delivered its resource; no resource is taken back.
C19_InstallFailureDropsUserData ==
    (cret.returned /\ cret.err = InstallErr)
        => /\ cret.userData = Null
           /\ Succeeded
           /\ PhaseCount("done") = TaskCount
           /\ Entries(ret.info[1]) = TaskCount
           /\ LET calls == kubeconfig[1]
              IN calls # <<>> /\ TasksAt(calls[Len(calls)].p, "cluster", calls[Len(calls)].Zone) >= 1
C19_Witness ==
    /\ cret.returned
    /\ cret.err = InstallErr
    /\ TaskCount = 2
    /\ Len(kubeconfig[1]) = 2

\* C20: Install is invoked, and the kubeconfig file made, only after a run
\* that succeeded with a complete inventory; when the run failed, Construct
\* returns the run's error and no user data without making the file or
\* calling Install.
C20_InstallOnlyAfterSuccess ==
    /\ kubeconfig # Null
          => /\ Succeeded
             /\ Entries(ret.info[1]) = TaskCount
             /\ PhaseCount("done") = TaskCount
             /\ \A n \in 1..Len(kubeconfig[1]) : kubeconfig[1][n].p \in DOMAIN ret.info[1]
    /\ (cret.returned /\ ret.err # NoErr)
          => /\ cret.err = ret.err
             /\ cret.userData = Null
             /\ kubeconfig = Null
C20_Witness ==
    /\ cret.returned
    /\ cret.err.cause = "api"
    /\ PhaseCount("done") = 1
    /\ Len(communication) = 1
    /\ kubeconfig = Null

\* ---------------------------------------------------------------- a second run
MaxRuns == 2       \* calls of Construct, one after the other

\* a channel kept in a package variable and used again by the next call
NewChannel_shared == communication

\* line 192: communication := make(chan com, maxChannels), made by every call
NewChannel == <<>>

\* Construct is called again with the same receiver and the pool put back to
\* what it was, after a call that failed and whose goroutines have all ended:
\* the variables of construct are new, gcpClient is what it was
Rerun ==
    /\ run < MaxRuns
    /\ pc = "returned"
    /\ cret.returned
    /\ cret.err # NoErr
    /\ AllSettled
    /\ run' = run + 1
    /\ types' = types0
    /\ pc' = "start"
    /\ kindsLeft' = Kinds
    /\ rType' = Nil
    /\ specIdx' = 0
    /\ project' = NoProject
    /\ zoneRing' = EmptyRing
    /\ drawn' = <<>>
    /\ i' = 0
    /\ parentErr' = "unset"
    /\ ctxErr' = "unset"
    /\ gerr' = NoErr
    /\ firstFailure' = NoErr
    /\ tasks' = EmptyBag
    /\ communication' = NewChannel
    /\ closed' = FALSE
    /\ info' = <<>>
    /\ processed' = <<>>
    /\ ret' = NoRet
    /\ cret' = NoCRet
    /\ kubeconfig' = Null
    /\ used' = {}
    /\ UNCHANGED <<toolVars, gcpClient, rc, types0>>

RerunRequests ==
    {[k \in Kinds |-> IF k = "kA" THEN la ELSE <<>>] : la \in ListsWithin({NoZone}, MaxSpecs, MaxTasks)}
InitRerun == \E r \in RerunRequests : \E pool \in Pools(r) : InitRun(r, pool, "client")
NextRerun == Next \/ Rerun
SpecRerun == InitRerun /\ [][NextRerun]_vars

\* C21: a run started after a failed one, with the same request and the pool
\* put back, is a run of its own: it pops the projects the pool and the request
\* determine (the m-th spec of a kind gets the m-th project from the end), it
\* gives its tasks the zones the lists and the request determine, it has no
\* task, result or error that is not its own, and it can succeed.
C21_RerunUnaffected ==
    run >= 2
        => /\ \A n \in 1..Len(processed) :
                 LET k == processed[n].kind
                 IN processed[n].p = types0[k][Len(types0[k]) - processed[n].idx + 1]
           /\ \A t \in BagToSet(tasks) : \E n \in 1..Len(processed) : processed[n].p = t.p
           /\ TaskCount <= ProcessedInst(processed)
           /\ Len(communication) + Entries(info) <= PhaseCount("done")
           /\ gerr # NoErr
                 => \E t \in BagToSet(tasks) : t.ph = "failed" /\ gerr = TaskErr(t, gerr.cause)
           /\ Succeeded => Entries(ret.info[1]) = TaskCount
           /\ C13_PinnedKeepRing
C21_Witness ==
    /\ run = 2
    /\ cret.returned
    /\ cret.err = NoErr
    /\ TaskCount = 2
    /\ Len(processed) = 2

\* C22: the pool and the ring are changed only by steps of the dispatch
\* loop, which move no task; a step of a task leaves both alone. A task has
\* its zone from the moment it is dispatched, and keeps it.
C22_LoopOwnsPoolAndRing ==
    [][LET taskStep == \E t \in BagToSet(tasks) : CopiesIn(t, tasks') < CopiesIn(t, tasks)
       IN /\ (types' # types \/ zoneRing' # zoneRing \/ drawn' # drawn)
                => (pc \in {"loop", "clusters", "vms"} /\ ~taskStep)
          /\ taskStep
                => /\ TaskCount' = TaskCount
                   /\ \A u \in BagToSet(tasks') :
                         \E t \in BagToSet(tasks) : t.p = u.p /\ t.kind = u.kind /\ t.zone = u.zone
          /\ \A u \in BagToSet(tasks') : u.zone # NoZone /\ u.p # NoProject]_vars
C22_Witness ==
    /\ pc = "vms"
    /\ zoneRing.index = 1
    /\ drawn = <<"us-a">>
    /\ \E t \in BagToSet(tasks) : t.ph = "creating" /\ t.p = project /\ t.zone = "us-a"

\* C23: the zones of every popped project are listed exactly once, in the
\* step that pops it, when no task of that project exists yet; tasks are
\* dispatched only for projects whose zones have been listed.
C23_ZonesListedOnce ==
    /\ [](/\ \A n \in 1..Len(processed) : processed[n].listed = 1
          /\ \A t \in BagToSet(tasks) : \E n \in 1..Len(processed) : processed[n].p = t.p)
    /\ [][processed' # processed
             => /\ Len(processed') = Len(processed) + 1
                /\ SubSeq(processed', 1, Len(processed)) = processed
                /\ tasks' = tasks
                /\ \A t \in BagToSet(tasks) : t.p # processed'[Len(processed')].p]_vars
C23_Witness ==
    /\ Len(processed) = 2
    /\ TasksAt(processed[1].p, "cluster", "us-a") = 1
    /\ TasksAt(processed[2].p, "vm", "us-a") = 1
    /\ processed[2].listed = 1

\* C24: when listZones fails for a popped project the run returns at once
\* with the error listZones gave, unchanged; no task exists for that project,
\* none is dispatched for it or for a later spec, and the listing is not
\* asked for again.
C24_ListFailureIsFatal ==
    /\ []((Returned /\ ret.err = ListErr)
             => LET last == processed[Len(processed)]
                IN /\ last.listed = 1
                   /\ \A t \in BagToSet(tasks) : t.p # last.p
                   /\ TaskCount = ProcessedInst(SubSeq(processed, 1, Len(processed) - 1))
                   /\ ret = ErrReturn(ListErr))
    /\ [][/\ (pc = "loop" /\ pc' = "returned" /\ processed' # processed)
                => (ret' = ErrReturn(ListErr) /\ tasks' = tasks)
          /\ Returned => (TaskCount' = TaskCount /\ processed' = processed)]_vars
C24_Witness ==
    /\ Returned
    /\ ret.err = ListErr
    /\ Len(processed) = 2
    /\ TaskCount = 1
    /\ rc[processed[2].kind][processed[2].idx].Clusters # <<>>

\* C25: each pop of the loop is popProject of lines 197-204: on a non-empty
\* list of the kind it takes the LAST project and leaves the list without it
\* (the other kinds untouched); on an empty list it reports pool exhaustion
\* and leaves the pool as it was.
C25_PopIsLIFO ==
    [][(pc = "loop" /\ <<rType', specIdx'>> # <<rType, specIdx>>)
          => LET k == rType'
                 n == Len(types[k])
             IN IF n > 0
                THEN /\ Len(processed') = Len(processed) + 1
                     /\ processed'[Len(processed')].p = types[k][n]
                     /\ processed'[Len(processed')].kind = k
                     /\ types' = [types EXCEPT ![k] = SubSeq(types[k], 1, n - 1)]
                     /\ ret'.err # PoolErr
                ELSE /\ pc' = "returned"
                     /\ ret' = ErrReturn(PoolErr)
                     /\ types' = types
                     /\ processed' = processed]_vars
C25_Witness ==
    /\ Returned
    /\ ret.err = PoolErr
    /\ Len(processed) = 1
    /\ Len(types0[processed[1].kind]) = 2
    /\ processed[1].p = types0[processed[1].kind][2]
    /\ types[processed[1].kind] = <<types0[processed[1].kind][1]>>
    /\ \E k \in Kinds : rc[k] # <<>> /\ types0[k] = <<>>

\* C26: every result on the channel has exactly one of its two variants set,
\* whatever the creators return, and the aggregator never stops on a result
\* with neither variant.
C26_OneVariantPerResult ==
    /\ \A m \in 1..Len(communication) :
          (communication[m].ci = Null) # (communication[m].vmi = Null)
    /\ ~(pc = "panic" /\ Len(communication) > 0
            /\ Head(communication).ci = Null /\ Head(communication).vmi = Null)

\* C27: in the inventory of a successful run every project that a spec
\* received has as many clusters as that spec has cluster specs and as many
\* VMs as it has VM specs (no entry when the spec has neither), and nothing
\* else is in the inventory.
C27_FoldedIntoOwnEntry ==
    Succeeded =>
        LET inf == ret.info[1]
        IN /\ \A n \in 1..Len(processed) :
                 LET e == processed[n]
                     cfg == rc[e.kind][e.idx]
                 IN IF InstCount(cfg) = 0
                    THEN e.p \notin DOMAIN inf
                    ELSE /\ e.p \in DOMAIN inf
                         /\ Len(inf[e.p].Clusters) = Len(cfg.Clusters)
                         /\ Len(inf[e.p].VMs) = Len(cfg.Vms)
           /\ DOMAIN inf \subseteq {processed[n].p : n \in 1..Len(processed)}
C27_Witness ==
    /\ Succeeded
    /\ Len(processed) = 2
    /\ \E n, m \in 1..2 :
          /\ n # m
          /\ Len(rc[processed[n].kind][processed[n].idx].Clusters) = 1
          /\ Len(rc[processed[m].kind][processed[m].idx].Vms) = 1
          /\ Len(ret.info[1][processed[n].p].Clusters) = 1
          /\ Len(ret.info[1][processed[m].p].VMs) = 1

\* C28: the missing-client check, the zone listings and the creator calls of
\* one run all read the same client, also when SetClient is called while the
\* run is under way.
C28_OneClientPerRun == Cardinality(used) <= 1

\* C29: the ring of every popped project is new and starts at index 0 of that
\* project's zone list, and the first spec without a zone of every project
\* gets the first zone of the list, wherever the ring of the project before
\* had come to.
C29_OwnRingPerProject ==
    [][/\ (pc = "loop" /\ InSpec(pc'))
            => /\ zoneRing'.index = 0
               /\ drawn' = <<>>
               /\ project' = processed'[Len(processed')].p
       /\ (InSpec(pc) /\ TaskCount' = TaskCount + 1 /\ drawn = <<>>)
            => LET cfg == rc[rType][specIdx]
                   z == IF pc = "clusters" THEN cfg.Clusters[i + 1] ELSE cfg.Vms[i + 1]
                   kind == IF pc = "clusters" THEN "cluster" ELSE "vm"
               IN z = NoZone
                     => CopiesIn(NewTask(kind, zoneRing.values[1]), tasks')
                            = CopiesIn(NewTask(kind, zoneRing.values[1]), tasks) + 1]_vars
C29_Witness ==
    /\ Len(processed) = 2
    /\ TasksAt(processed[1].p, "cluster", "us-a") = 1
    /\ TasksAt(processed[2].p, "cluster", "us-a") = 1
    /\ TaskCount = 2

\* C30: once a run has returned early, with the pool exhaustion error or the
\* error of a zone listing, the context shared by the tasks is done (cancelled
\* by the return unless its deadline had elapsed before) and stays so: every
\* task dispatched for an earlier spec sees a done context from then on.
C30_EarlyAbortCancels ==
    /\ []((Returned /\ ret.err \in {PoolErr, ListErr})
             => /\ CtxDone
                /\ TaskCtxErr \in {"canceled", "deadline"}
                /\ parentErr # "live")
    /\ [][(Returned /\ ret.err \in {PoolErr, ListErr})
             => (ctxErr' = ctxErr /\ parentErr' = parentErr)]_vars
C30_Witness ==
    /\ Returned
    /\ ret.err = PoolErr
    /\ gerr = NoErr
    /\ ctxErr = "canceled"
    /\ \E t \in BagToSet(tasks) : t.ph = "creating"
    /\ \E t \in BagToSet(tasks) : t.ph = "dispatched"

\* C31: no step of a run changes the request: the zone drawn for a spec
\* without a zone goes to the task and not into the request, whose spec has
\* no zone afterwards either.
C31_RequestUntouched ==
    [][/\ rc' = rc
       /\ (InSpec(pc) /\ TaskCount' = TaskCount + 1)
            => LET cfg == rc[rType][specIdx]
                   z == IF pc = "clusters" THEN cfg.Clusters[i + 1] ELSE cfg.Vms[i + 1]
                   z2 == IF pc = "clusters" THEN rc'[rType][specIdx].Clusters[i + 1]
                         ELSE rc'[rType][specIdx].Vms[i + 1]
               IN z = NoZone
                     => /\ z2 = NoZone
                        /\ \E t \in BagToSet(tasks') :
                              /\ t.zone = RingValue(zoneRing)
                              /\ CopiesIn(t, tasks') = CopiesIn(t, tasks) + 1]_vars
C31_Witness ==
    /\ Returned
    /\ Len(processed) = 1
    /\ rc[processed[1].kind][processed[1].idx] = [Clusters |-> <<NoZone>>, Vms |-> <<NoZone>>]
    /\ TasksAt(processed[1].p, "cluster", "us-a") = 1
    /\ TasksAt(processed[1].p, "vm", "us-b") = 1

\* C32: a project spec with no cluster and no VM takes one project from the
\* pool and has its zones listed once, no task is dispatched for it, and the
\* inventory of a successful run has no entry for its project.
C32_EmptySpecStillPops ==
    /\ [](\A n \in 1..Len(processed) :
             LET e == processed[n]
             IN InstCount(rc[e.kind][e.idx]) = 0
                   => /\ e.listed = 1
                      /\ \A t \in BagToSet(tasks) : t.p # e.p
                      /\ Succeeded => e.p \notin DOMAIN ret.info[1])
    /\ [][(/\ pc = "loop"
           /\ <<rType', specIdx'>> # <<rType, specIdx>>
           /\ InstCount(rc[rType'][specIdx']) = 0
           /\ types[rType'] # <<>>)
             => /\ Len(processed') = Len(processed) + 1
                /\ processed'[Len(processed')].p = types[rType'][Len(types[rType'])]
                /\ Len(types'[rType']) = Len(types[rType']) - 1
                /\ tasks' = tasks
                /\ ~InSpec(pc')]_vars
C32_Witness ==
    /\ Succeeded
    /\ Len(processed) = 2
    /\ InstCount(rc[processed[1].kind][processed[1].idx]) = 0
    /\ InstCount(rc[processed[2].kind][processed[2].idx]) = 2
    /\ DOMAIN ret.info[1] = {processed[2].p}
    /\ processed[1].listed = 1

\* the SetKubeConfig calls made for project q, and for q in zone z
CallsFor(calls, q) == Cardinality({n \in 1..Len(calls) : calls[n].p = q})
CallsAt(calls, q, z) == Cardinality({n \in 1..Len(calls) : calls[n].p = q /\ calls[n].Zone = z})
ClustersAt(inf, q, z) ==
    Cardinality({c \in 1..Len(inf[q].Clusters) : inf[q].Clusters[c].Zone = z})

\* C33: Install calls SetKubeConfig for clusters of the inventory only, at
\* most once for each; when no call fails it has called it once for every
\* cluster of every project; a call that fails is the last call made, and its
\* error is what Install returns.
C33_InstallStopsAtFirstFailure ==
    (cret.returned /\ kubeconfig # Null /\ ret.info # Null)
        => LET calls == kubeconfig[1]
               inf == ret.info[1]
               stopped == calls # <<>> /\ calls[Len(calls)].failed
           IN /\ \A n \in 1..Len(calls) :
                    /\ calls[n].p \in DOMAIN inf
                    /\ CallsAt(calls, calls[n].p, calls[n].Zone)
                          <= ClustersAt(inf, calls[n].p, calls[n].Zone)
                    /\ n < Len(calls) => ~calls[n].failed
              /\ stopped <=> cret.err = InstallErr
              /\ ~stopped => \A q \in DOMAIN inf : CallsFor(calls, q) = Len(inf[q].Clusters)
C33_Witness ==
    /\ cret.returned
    /\ cret.err = InstallErr
    /\ Len(kubeconfig[1]) = 1
    /\ Cardinality(DOMAIN ret.info[1]) = 2
    /\ \A q \in DOMAIN ret.info[1] : Len(ret.info[1][q].Clusters) = 1

\* ---------------------------------------------------------------- the fast-forward tool
MaxPRs == 2        \* pull requests the repository has when the tool starts

\* commits: the first seven characters of the SHA and the rest
Commits == {<<"aaaaaaa", "1">>, <<"aaaaaaa", "2">>, <<"bbbbbbb", "1">>}

\* (*commit)[0:7], sha[0:7]
SHA7(c) == c[1]

\* branchName of createFastForwardBranch: fastForwardPrefix-h.Head-(*commit)[0:7]
FFBranch(c) == <<"fastForward", "master", SHA7(c)>>

\* tag of createStableTag: stable-sha[0:7]
StableTag(c) == <<"stable", SHA7(c)>>

\* a title: whether it contains "DO NOT MERGE! Fast Forward", and the commits
\* whose SHA it contains
FFTitle(c) == [ff |-> TRUE, commits |-> {c}]
TitleContains(title, c) == c \in title.commits

\* the pull request createPullRequestToBase asks for
NewPullRequest(c) == [title |-> FFTitle(c), head |-> FFBranch(c), sha |-> c, state |-> "open"]

\* a pull request on h.Base made by somebody else
OtherPR ==
    [title |-> [ff |-> FALSE, commits |-> {}], head |-> <<"feature", "master", "">>,
     sha |-> <<"bbbbbbb", "1">>, state |-> "open"]

\* strings.HasPrefix(*pr.Head.Ref, fastForwardPrefix)
HasFFPrefix(ref) == ref[1] = "fastForward"

\* the states util.GetCIState may give: the constants of ghConst
CIStates == {"success", "failure", "pending", "error"}

ApiErr == RunErr("github api")

\* a call of the GitHub API that writes: the pull request it is made for (its
\* number), and whether it succeeded; GetCIState records the state found
Call(op, n, ok) == [op |-> op, n |-> n, ok |-> ok]
Logged(c) == ghCalls' = Append(ghCalls, c)

\* log.Fatalf in main after the helper's method returned err
Fatal(e) == ffpc' = "fatal" /\ ffErr' = e

\* the repositories the tool is started on
PullRequests ==
    {[NewPullRequest(c) EXCEPT !.state = st] : c \in Commits, st \in {"open", "closed"}}
        \cup {OtherPR}

\* Construct is not called
NoConstruct ==
    /\ InitCall(NoRequest, NoRequest, Nil)
    /\ zoneRing = EmptyRing
    /\ drawn = <<>>

\* main with -verify or with -fast_forward, on one repository
InitFF ==
    /\ NoConstruct
    /\ NoJobConfig
    /\ ffpc \in {"verify", "ff"}
    /\ ffCommit = Null
    /\ ffIdx = 0
    /\ ffState = ""
    /\ ffErr = NoErr
    /\ ghHead \in Commits
    /\ ghBase \in Commits
    /\ ghBranches \in SUBSET {FFBranch(c) : c \in Commits}
    /\ ghTags \in SUBSET {StableTag(c) : c \in Commits}
    /\ ghPRs \in SeqsUpTo(PullRequests, MaxPRs)
    /\ ghCalls = <<>>

\* ---- -verify
\* verifyPullRequestStatus: PullRequests.List of the open pull requests on
\* h.Base (lines 321-328)
VerifyList ==
    /\ ffpc = "verify"
    /\ \/ Fatal(ApiErr) /\ ffIdx' = ffIdx
       \/ ffpc' = "loop" /\ ffIdx' = 1 /\ ffErr' = ffErr
    /\ UNCHANGED <<provisionVars, jobVars, ffCommit, ffState, ghHead, ghBase, ghBranches,
                   ghTags, ghPRs, ghCalls>>

\* the pull requests the loop does not skip (lines 329-332; the
\* list holds the open ones)
IsFastForwardPR(pr) == pr.state = "open" /\ pr.title.ff /\ HasFFPrefix(pr.head)

\* the switch of updatePullRequest (lines 298-316): where it goes on
Switch(state) ==
    CASE state = "success" -> "tag"
      [] state = "failure" -> "delete"
      [] OTHER -> "next"

\* the end of one iteration of the loop of verifyPullRequestStatus
NextPR ==
    /\ ffpc' = "loop"
    /\ ffIdx' = ffIdx + 1
    /\ ffErr' = ffErr

Goto(at) == IF at = "next" THEN NextPR ELSE ffpc' = at /\ UNCHANGED <<ffIdx, ffErr>>

\* one iteration up to the switch: skip the pull request, or get its combined
\* status and enter updatePullRequest (lines 329-340, 297-298)
VerifyPR ==
    /\ ffpc = "loop"
    /\ IF ffIdx > Len(ghPRs)
       THEN /\ ffpc' = "done"
            /\ UNCHANGED <<ffIdx, ffErr, ffState, ghCalls>>
       ELSE IF ~IsFastForwardPR(ghPRs[ffIdx])
       THEN NextPR /\ UNCHANGED <<ffState, ghCalls>>
       ELSE \/ Fatal(ApiErr) /\ UNCHANGED <<ffIdx, ffState, ghCalls>>
            \/ \E state \in CIStates :
                  /\ ffState' = state
                  /\ Logged(Call(state, ffIdx, TRUE))
                  /\ Goto(Switch(state))
    /\ UNCHANGED <<provisionVars, jobVars, ffCommit, ghHead, ghBase, ghBranches, ghTags, ghPRs>>

\* createStableTag(s.SHA) (lines 210-248, called at line 300): Git.CreateTag, then Git.CreateRef
\* of refs/tags/stable-...; a 422 of CreateRef counts as success, a CreateRef
\* without a response makes resp.StatusCode panic
CreateStableTag ==
    /\ ffpc = "tag"
    /\ LET tag == StableTag(ghPRs[ffIdx].sha)
       IN \/ Fatal(ApiErr) /\ UNCHANGED <<ghTags, ghCalls>>
          \/ IF tag \in ghTags
             THEN /\ Logged(Call("CreateTagRef", ffIdx, TRUE))
                  /\ ffpc' = "base"
                  /\ UNCHANGED <<ghTags, ffErr>>
             ELSE \/ /\ ghTags' = ghTags \cup {tag}
                     /\ Logged(Call("CreateTagRef", ffIdx, TRUE))
                     /\ ffpc' = "base"
                     /\ ffErr' = ffErr
                  \/ /\ Logged(Call("CreateTagRef", ffIdx, FALSE))
                     /\ \/ Fatal(ApiErr)
                        \/ ffpc' = "panic" /\ ffErr' = ffErr
                     /\ ghTags' = ghTags
    /\ UNCHANGED <<provisionVars, jobVars, ffCommit, ffIdx, ffState, ghHead, ghBase,
                   ghBranches, ghPRs>>

\* an updatePullRequest that deletes the branch whatever updateBaseReference
\* returned
AfterUpdate_always(ok) == "delete"

\* lines 303-307: after updateBaseReference
AfterUpdate(ok) == IF ok THEN "delete" ELSE "next"

\* updateBaseReference(s.SHA) (lines 251-270, called at line 303)
UpdateBaseReference ==
    /\ ffpc = "base"
    /\ \E ok \in BOOLEAN :
          /\ ghBase' = IF ok THEN ghPRs[ffIdx].sha ELSE ghBase
          /\ Logged(Call("UpdateRef", ffIdx, ok))
          /\ Goto(AfterUpdate(ok))
    /\ UNCHANGED <<provisionVars, jobVars, ffCommit, ffState, ghHead, ghBranches, ghTags, ghPRs>>

\* deleteFastForwardBranch(*pr.Head.Ref) (lines 273-278), called at line 307
\* (success) or 311 (failure); log.Panicf when DeleteRef fails
DeleteFastForwardBranch ==
    /\ ffpc = "delete"
    /\ \/ /\ ghBranches' = ghBranches \ {ghPRs[ffIdx].head}
          /\ Logged(Call("DeleteRef", ffIdx, TRUE))
          /\ Goto(IF ffState = "failure" THEN "close" ELSE "next")
       \/ /\ Logged(Call("DeleteRef", ffIdx, FALSE))
          /\ ffpc' = "panic"
          /\ UNCHANGED <<ghBranches, ffIdx, ffErr>>
    /\ UNCHANGED <<provisionVars, jobVars, ffCommit, ffState, ghHead, ghBase, ghTags, ghPRs>>

\* closePullRequest(pr) (lines 202-207, called at line 312)
ClosePullRequest ==
    /\ ffpc = "close"
    /\ \/ /\ ghPRs' = [ghPRs EXCEPT ![ffIdx].state = "closed"]
          /\ Logged(Call("Edit", ffIdx, TRUE))
          /\ NextPR
       \/ /\ Logged(Call("Edit", ffIdx, FALSE))
          /\ Fatal(ApiErr)
          /\ UNCHANGED <<ghPRs, ffIdx>>
    /\ UNCHANGED <<provisionVars, jobVars, ffCommit, ffState, ghHead, ghBase, ghBranches, ghTags>>

\* ---- -fast_forward
\* getLastCommitFromHead (lines 158-171): the commit of h.Head when h.Base is
\* behind it, nil when it is not
GetLastCommitFromHead ==
    /\ ffpc = "ff"
    /\ \/ Fatal(ApiErr) /\ ffCommit' = ffCommit
       \/ /\ ffCommit' = IF ghHead # ghBase THEN Ref(ghHead) ELSE Null
          /\ ffpc' = IF ghHead # ghBase THEN "list" ELSE "done"
          /\ ffErr' = ffErr
    /\ UNCHANGED <<provisionVars, jobVars, ffIdx, ffState, ghHead, ghBase, ghBranches, ghTags,
                   ghPRs, ghCalls>>

\* line 187: if err == nil { ... }; line 195 follows when List failed
ListFailed == "branch"

\* lines 180-195: list the pull requests of every state, look for the commit
\* in their titles
FindPullRequest ==
    /\ ffpc = "list"
    /\ \/ /\ ffpc' = ListFailed
          /\ ffErr' = ffErr
       \/ /\ ffpc' = IF \E n \in 1..Len(ghPRs) : TitleContains(ghPRs[n].title, ffCommit[1])
                      THEN "done" ELSE "branch"
          /\ ffErr' = ffErr
    /\ UNCHANGED <<provisionVars, jobVars, ffCommit, ffIdx, ffState, ghHead, ghBase, ghBranches,
                   ghTags, ghPRs, ghCalls>>

\* createFastForwardBranch (lines 105-126, called at line 134): Git.CreateRef
\* fails when the branch exists; without a response resp.StatusCode panics
CreateFastForwardBranch ==
    /\ ffpc = "branch"
    /\ LET b == FFBranch(ffCommit[1])
           n == Len(ghPRs) + 1
       IN \/ /\ b \notin ghBranches
             /\ ghBranches' = ghBranches \cup {b}
             /\ Logged(Call("CreateBranchRef", n, TRUE))
             /\ ffpc' = "pr"
             /\ ffErr' = ffErr
          \/ /\ Logged(Call("CreateBranchRef", n, FALSE))
             /\ \/ Fatal(ApiErr)
                \/ ffpc' = "panic" /\ ffErr' = ffErr
             /\ ghBranches' = ghBranches
    /\ UNCHANGED <<provisionVars, jobVars, ffCommit, ffIdx, ffState, ghHead, ghBase, ghTags, ghPRs>>

\* lines 139-154: PullRequests.Create
CreatePullRequest ==
    /\ ffpc = "pr"
    /\ LET n == Len(ghPRs) + 1
       IN \/ /\ ghPRs' = Append(ghPRs, NewPullRequest(ffCommit[1]))
             /\ Logged(Call("Create", n, TRUE))
             /\ ffpc' = "done"
             /\ ffErr' = ffErr
          \/ /\ Logged(Call("Create", n, FALSE))
             /\ Fatal(ApiErr)
             /\ ghPRs' = ghPRs
    /\ UNCHANGED <<provisionVars, jobVars, ffCommit, ffIdx, ffState, ghHead, ghBase, ghBranches,
                   ghTags>>

NextFF ==
    \/ VerifyList
    \/ VerifyPR
    \/ CreateStableTag
    \/ UpdateBaseReference
    \/ DeleteFastForwardBranch
    \/ ClosePullRequest
    \/ GetLastCommitFromHead
    \/ FindPullRequest
    \/ CreateFastForwardBranch
    \/ CreatePullRequest

SpecFF == InitFF /\ [][NextFF]_vars

\* the calls logged for pull request n, in order: <<op, ok>>
Ops(n) ==
    LET Of(e) == e.n = n
        s == SelectSeq(ghCalls, Of)
    IN [k \in 1..Len(s) |-> <<s[k].op, s[k].ok>>]

\* C34: verifying a fast-forward pull request with state success, the tool
\* makes the stable tag, then updates the base reference, then deletes the
\* branch, and goes on to the next call only when the one before succeeded; a
\* failed base update changes nothing, is no error, and leaves the pull
\* request open with its branch. With state failure it deletes the branch,
\* then closes the pull request. With state pending it changes nothing.
C34_VerifyOrder ==
    /\ [](ffIdx > 0 =>
            \A n \in 1..Len(ghPRs) :
                /\ LET S == <<"success", TRUE>>
                       F == <<"failure", TRUE>>
                       T(ok) == <<"CreateTagRef", ok>>
                       U(ok) == <<"UpdateRef", ok>>
                       D(ok) == <<"DeleteRef", ok>>
                       E(ok) == <<"Edit", ok>>
                       \* what updatePullRequest may do for one pull request,
                       \* from the state found to its last call
                       VerifyRuns ==
                           {<<S, T(TRUE), U(TRUE), D(TRUE)>>, <<S, T(TRUE), U(TRUE), D(FALSE)>>,
                            <<S, T(TRUE), U(FALSE)>>, <<S, T(FALSE)>>,
                            <<F, D(TRUE), E(TRUE)>>, <<F, D(TRUE), E(FALSE)>>, <<F, D(FALSE)>>,
                            <<<<"pending", TRUE>>>>, <<<<"error", TRUE>>>>}
                       IsPrefix(s, t) == Len(s) <= Len(t) /\ SubSeq(t, 1, Len(s)) = s
                   IN \E r \in VerifyRuns : IsPrefix(Ops(n), r)
                /\ (n < ffIdx /\ Ops(n) # <<>>) =>
                      LET pr == ghPRs[n]
                      IN /\ Ops(n)[1][1] = "failure"
                            => (pr.state = "closed" /\ pr.head \notin ghBranches)
                         /\ Ops(n)[Len(Ops(n))] = <<"UpdateRef", FALSE>> => pr.state = "open"
                         /\ Ops(n)[1][1] = "pending" => pr.state = "open"
                         /\ Ops(n)[Len(Ops(n))] = <<"DeleteRef", TRUE>>
                               => (StableTag(pr.sha) \in ghTags /\ pr.head \notin ghBranches))
    /\ [][/\ ghCalls' = Append(ghCalls, Call("UpdateRef", ffIdx, FALSE))
               => /\ ffErr' = NoErr
                  /\ ffpc' = "loop"
                  /\ UNCHANGED <<ghBase, ghBranches, ghTags, ghPRs>>
          /\ ghCalls' = Append(ghCalls, Call("pending", ffIdx, TRUE))
               => /\ ffErr' = NoErr
                  /\ ffpc' = "loop"
                  /\ UNCHANGED <<ghBase, ghBranches, ghTags, ghPRs>>
          /\ (ffpc = "base" /\ ghCalls' # ghCalls) => StableTag(ghPRs[ffIdx].sha) \in ghTags
          /\ (ffState = "success" /\ ghBranches' # ghBranches) => ghBase = ghPRs[ffIdx].sha]_vars
C34_Witness ==
    /\ ffpc = "done"
    /\ Len(ghPRs) = 2
    /\ Ops(1) = <<<<"success", TRUE>>, <<"CreateTagRef", TRUE>>, <<"UpdateRef", FALSE>>>>
    /\ Ops(2) = <<<<"failure", TRUE>>, <<"DeleteRef", TRUE>>, <<"Edit", TRUE>>>>
    /\ ghPRs[1].state = "open"
    /\ ghPRs[1].head \in ghBranches
    /\ ghPRs[2].state = "closed"

\* C35: fastForwardBase creates a fast-forward branch or a pull request only
\* when h.Head has a commit h.Base lacks and no pull request of the
\* repository, in whatever state, has that commit in its title.
C35_NoSecondPullRequest ==
    \A k \in 1..Len(ghCalls) :
        (ghCalls[k].op \in {"CreateBranchRef", "Create"} /\ ghCalls[k].ok)
            => /\ ghHead # ghBase
               /\ \A m \in 1..(ghCalls[k].n - 1) : ~TitleContains(ghPRs[m].title, ghHead)

\* ---------------------------------------------------------------- ValidateJobConfig
MaxJobs == 1       \* jobs of one JobConfig

DefaultResource == "default"
TypePostsubmit == "postsubmit"
TypePresubmit == "presubmit"
TypePeriodic == "periodic"
JobModifiers == <<"hidden", "optional", "skipped">>
AllRequirements == <<"kind", "docker", "github", "release", "root", "gcp", "deploy", "cache">>

\* cron.Parse and time.ParseDuration: the strings they accept, of those used
CronParses(c) == c = "0 3 * * *"
DurationParses(d) == d = "1h"

ValidationErr(kind, what) == [kind |-> kind, what |-> what]

RECURSIVE Flatten(_)
\* err after multierror.Append of every list of errors in turn
Flatten(ss) == IF ss = <<>> THEN <<>> ELSE Head(ss) \o Flatten(Tail(ss))

\* validate (lines 387-398)
validate(input, options, description) ==
    IF \E k \in 1..Len(options) : input = options[k] THEN <<>>
    ELSE <<ValidationErr(description, input)>>

\* a check that accepts a periodic job with both cron and interval
PeriodicErrors_bothAllowed(job) ==
    IF job.Cron = "" /\ job.Interval = ""
    THEN <<ValidationErr("cron and interval cannot be both empty", job.Name)>>
    ELSE IF job.Cron # ""
    THEN IF CronParses(job.Cron) THEN <<>>
         ELSE <<ValidationErr("invalid cron string", job.Name)>>
    ELSE IF DurationParses(job.Interval) THEN <<>>
         ELSE <<ValidationErr("cannot parse duration", job.Name)>>

\* lines 203-217, inside if job.Type == TypePeriodic
PeriodicErrors(job) ==
    IF job.Cron # "" /\ job.Interval # ""
    THEN <<ValidationErr("cron and interval cannot be both set", job.Name)>>
    ELSE IF job.Cron = "" /\ job.Interval = ""
    THEN <<ValidationErr("cron and interval cannot be both empty", job.Name)>>
    ELSE IF job.Cron # ""
    THEN IF CronParses(job.Cron) THEN <<>>
         ELSE <<ValidationErr("invalid cron string", job.Name)>>
    ELSE IF job.Interval # ""
    THEN IF DurationParses(job.Interval) THEN <<>>
         ELSE <<ValidationErr("cannot parse duration", job.Name)>>
    ELSE <<>>

\* one iteration of the loop over jobConfig.Jobs (lines 184-225); a repo is
\* the list strings.Split(repo, "/") gives
JobErrors(cfg, job) ==
    (IF job.Resources # "" /\ job.Resources \notin cfg.Resources
     THEN <<ValidationErr("nonexistant resource", job.Name)>> ELSE <<>>)
    \o Flatten([k \in 1..Len(job.Modifiers) |-> validate(job.Modifiers[k], JobModifiers, "status")])
    \o Flatten([k \in 1..Len(job.Requirements) |->
                    validate(job.Requirements[k], AllRequirements, "requirements")])
    \o (IF job.Type = TypePeriodic THEN PeriodicErrors(job) ELSE <<>>)
    \o validate(job.Type, <<TypePostsubmit, TypePresubmit, TypePeriodic, "">>, "type")
    \o Flatten([k \in 1..Len(job.Repos) |->
                    IF Len(job.Repos[k]) # 2 THEN <<ValidationErr("repo not valid", job.Repos[k])>>
                    ELSE <<>>])

\* err of ValidateJobConfig before `if err != nil` (lines 168-226)
ConfigErrors(cfg) ==
    (IF DefaultResource \notin cfg.Resources
     THEN <<ValidationErr("resource must be provided", DefaultResource)>> ELSE <<>>)
    \o (IF cfg.Image = "" THEN <<ValidationErr("'image' must be set", "")>> ELSE <<>>)
    \o Flatten([k \in 1..Len(cfg.Requirements) |->
                    validate(cfg.Requirements[k], AllRequirements, "requirements")])
    \o Flatten([k \in 1..Len(cfg.Jobs) |-> JobErrors(cfg, cfg.Jobs[k])])

\* the jobs validated: a job that passes every check, given every type with
\* every cron and interval, and the jobs that fail one of the other checks
JobShapes ==
    LET GoodJob ==
            [Name |-> 0, Type |-> TypePresubmit, Cron |-> "", Interval |-> "",
             Resources |-> "", Modifiers |-> <<"optional">>, Requirements |-> <<"kind">>,
             Repos |-> <<<<"istio", "istio">>>>]
    IN {[GoodJob EXCEPT !.Type = t, !.Cron = c, !.Interval = d] :
            t \in {TypePostsubmit, TypePresubmit, TypePeriodic, "", "nightly"},
            c \in {"", "0 3 * * *", "often"},
            d \in {"", "1h", "soon"}}
       \cup {[GoodJob EXCEPT !.Resources = "huge"], [GoodJob EXCEPT !.Modifiers = <<"loud">>],
             [GoodJob EXCEPT !.Requirements = <<"kind", "sudo">>],
             [GoodJob EXCEPT !.Repos = <<<<"istio">>>>]}

\* the configurations validated; a job is named by its place in the list
JobConfigs ==
    LET JobLists == {[k \in 1..Len(l) |-> [l[k] EXCEPT !.Name = k]] :
                        l \in SeqsUpTo(JobShapes, MaxJobs)}
    IN {[Jobs |-> jobs, Image |-> image, Resources |-> res, Requirements |-> reqs] :
            jobs \in JobLists, image \in {"", "gcr.io/build"},
            res \in {{}, {DefaultResource}}, reqs \in {<<>>, <<"sudo">>}}

InitJob ==
    /\ NoConstruct
    /\ NoToolRun
    /\ jobConfig \in JobConfigs
    /\ jobErr = Null

\* ValidateJobConfig(jobConfig); a non-nil err ends the process in exit
ValidateJobConfig ==
    /\ jobErr = Null
    /\ jobErr' = Ref(ConfigErrors(jobConfig))
    /\ UNCHANGED <<provisionVars, ffVars, jobConfig>>

NextJob == ValidateJobConfig
SpecJob == InitJob /\ [][NextJob]_vars

\* C36: a periodic job with both cron and interval set gets the error 'both
\* set', one with neither gets the error 'both empty', and either error
\* rejects the configuration; a job that is not periodic gets neither error
\* and no error about its cron or interval at all.
C36_PeriodicNeedsOneSchedule ==
    jobErr # Null =>
        \A k \in 1..Len(jobConfig.Jobs) :
            LET job == jobConfig.Jobs[k]
                has(kind) == \E n \in 1..Len(jobErr[1]) :
                                 jobErr[1][n].kind = kind /\ jobErr[1][n].what = k
                periodic == job.Type = TypePeriodic
            IN /\ has("cron and interval cannot be both set")
                    <=> (periodic /\ job.Cron # "" /\ job.Interval # "")
               /\ has("cron and interval cannot be both empty")
                    <=> (periodic /\ job.Cron = "" /\ job.Interval = "")
               /\ (periodic /\ (job.Cron = "") = (job.Interval = "")) => jobErr[1] # <<>>
               /\ ~periodic => (~has("invalid cron string") /\ ~has("cannot parse duration"))
C36_Witness ==
    /\ jobErr # Null
    /\ jobErr[1] # <<>>
    /\ Len(jobConfig.Jobs) = 1
    /\ jobConfig.Jobs[1].Type = TypePeriodic
    /\ jobConfig.Jobs[1].Cron = "0 3 * * *"
    /\ jobConfig.Jobs[1].Interval = "1h"
    /\ Len(jobErr[1]) = 1
    /\ jobErr[1][1].kind = "cron and interval cannot be both set"

====
